---- MODULE Spec2Model ----
(***************************************************************************)
(* The Chat component of chatbot-ui (src/components/Chat/Chat.tsx): its    *)
(* React state (currentMessage, autoScrollEnabled), the props it renders   *)
(* (conversation, the turn in flight, stopConversationRef), the end marker  *)
(* watched by the IntersectionObserver, and the timers set by the          *)
(* throttled scrollDown.  One step is one event-loop task: a handler, the  *)
(* renders it causes and the effects that run after them.                  *)
(***************************************************************************)
EXTENDS Integers, Sequences, FiniteSets, Bags, TLC

VARIABLES
    conversation,        \* prop: [id, model, prompt, messages]
    currentMessage,      \* useState<Message>(), line 54
    autoScrollEnabled,   \* useState(true), line 55
    stopConversationRef, \* prop: the shared stop flag (.current)
    task,                \* the generation turn of the parent: its state, its
                         \* snapshot of the messages, and what started it
    observing,           \* the observer watches the mounted end marker
    markerVisible,       \* the end marker is at least half in the viewport
    focus,               \* the element that holds the input focus
    timers,              \* bag of pending trailing executions of scrollDown
    sinceScroll,         \* ms since the last scrollIntoView ran, capped at Limit
    lastSent,            \* the message most recently passed to onSend
    last                 \* the step just taken and the calls it issued

vars == <<conversation, currentMessage, autoScrollEnabled, stopConversationRef,
          task, observing, markerVisible, focus, timers, sinceScroll,
          lastSent, last>>

---------------------------------------------------------------------------
\* Bounds of the model: the messages of a conversation, the texts a user
\* sends, the deltas of one assistant message, the timers pending at once,
\* and the longest time one step of the clock lets pass.
MaxMsgs == 3
NumTexts == 1
MaxDeltas == 2
MaxTimers == 2
TickMs == 250

\* Program constants: the throttle window in ms, and the deleteCount that
\* onRegenerate passes.
Limit == 250
RegenerateDeleteCount == 2

---------------------------------------------------------------------------
\* Messages.
Undefined == [role |-> "undefined", content |-> 0]
UserMessage(text) == [role |-> "user", content |-> text]
AssistantMessage(n) == [role |-> "assistant", content |-> n]

Min(a, b) == IF a < b THEN a ELSE b

\* conversation.messages[conversation.messages.length - 2]: undefined when out
\* of range.  (SecondToLastOffByOne: the variant that indexes length - 1.)
SecondToLastOffByOne(ms) == IF Len(ms) >= 1 THEN ms[Len(ms)] ELSE Undefined
SecondToLast(ms) == IF Len(ms) >= 2 THEN ms[Len(ms) - 1] ELSE Undefined

\* The end marker is rendered only in the branch of a non-empty conversation.
MarkerMounted(ms) == Len(ms) > 0

---------------------------------------------------------------------------
\* The calls the component issues to its parent.
SendCall(m, n) == [call |-> "onSend", message |-> m, deleteCount |-> n]
UpdateCall(k, v) == [call |-> "onUpdateConversation", key |-> k, value |-> v]

\* onClearAll: the update request it issues, given the answer to confirm().
\* (onClearAllAlways: the variant that does not ask.)
onClearAllAlways(confirmed) == <<UpdateCall("messages", <<>>)>>
onClearAll(confirmed) ==
    IF confirmed THEN <<UpdateCall("messages", <<>>)>> ELSE <<>>

\* onRegenerate: the send it issues, given currentMessage.
\* (onRegenerateNoGuard: the variant without the test of currentMessage.)
onRegenerateNoGuard(cm) == <<SendCall(cm, RegenerateDeleteCount)>>
onRegenerate(cm) ==
    IF cm # Undefined THEN <<SendCall(cm, RegenerateDeleteCount)>> ELSE <<>>

\* The IntersectionObserver callback: the state and the focus it leaves.
\* (IntersectionCallbackFocusAlways: the variant that focuses on every entry.)
IntersectionCallbackFocusAlways(isIntersecting, foc) ==
    [autoScrollEnabled |-> isIntersecting, focus |-> "textarea"]
IntersectionCallback(isIntersecting, foc) ==
    [autoScrollEnabled |-> isIntersecting,
     focus |-> IF isIntersecting THEN "textarea" ELSE foc]

\* scrollDown, as closed over the autoScrollEnabled of the render that made
\* it: whether scrollIntoView runs on the end marker.
scrollDown(auto, mounted) == auto /\ mounted

---------------------------------------------------------------------------
\* throttle(scrollDown, 250), made anew by every render and called once by
\* that render's effect: the call is held back to one trailing execution
\* at the end of the window.
throttle(ts, auto) == ts (+) SetToBag({[remaining |-> Limit, auto |-> auto]})

RECURSIVE Renders(_, _, _)
Renders(ts, auto, n) ==
    IF n = 0 THEN ts ELSE Renders(throttle(ts, auto), auto, n - 1)

\* The effect on [conversation.messages, throttledScrollDown] runs after each
\* render; when it changes currentMessage the component renders once more.
RenderCount(cm, ms) == IF cm = SecondToLast(ms) THEN 1 ELSE 2

---------------------------------------------------------------------------
\* The parent (not part of the component).
DropLast(ms, n) == SubSeq(ms, 1, IF Len(ms) > n THEN Len(ms) - n ELSE 0)

\* handleSend: drop deleteCount trailing messages, append the message.
HandleSend(ms, m, n) == Append(DropLast(ms, n), m)

\* The store applies an update request to the one field it names.
ApplyUpdate(conv, c) ==
    IF c.key = "messages" THEN [conv EXCEPT !.messages = c.value] ELSE conv

\* A delta applied to the task's snapshot: the first opens the assistant
\* message, the next ones extend it.
ApplyDelta(t) ==
    IF t.state = "Sending"
    THEN Append(t.messages, AssistantMessage(1))
    ELSE [t.messages EXCEPT ![Len(t.messages)] =
             AssistantMessage(t.messages[Len(t.messages)].content + 1)]

\* The generation loop polls the stop flag before it applies a delta.
\* (ObservesStopNever: the variant that does not poll.)
ObservesStopNever(flag) == FALSE
ObservesStop(flag) == flag

\* What started a turn: a send, or a regenerate from a conversation of some
\* length with some currentMessage.
NoOrigin == [kind |-> "none", length |-> 0, message |-> Undefined]
SendOrigin == [kind |-> "send", length |-> 0, message |-> Undefined]
RegenerateOrigin(ms, cm) ==
    [kind |-> "regenerate", length |-> Len(ms), message |-> cm]

IdleTask == [state |-> "Idle", messages |-> <<>>, origin |-> NoOrigin]

---------------------------------------------------------------------------
\* What a step records: the handler that ran, the calls it issued to the
\* parent, the observer entry delivered in it ("none" when the callback did
\* not run), whether scrollIntoView ran, and how the step ended.
Step(op, calls, entry, scrolled, note) ==
    [op |-> op, calls |-> calls, entry |-> entry, scrolled |-> scrolled,
     note |-> note]

Entry(isIntersecting) == IF isIntersecting THEN "visible" ELSE "hidden"

\* A step that issues no call, delivers no entry and does not scroll.
Quiet(op, note) == Step(op, <<>>, "none", FALSE, note)

\* Conversations the store may hand to a newly mounted component.
StoredMessages ==
    {<<>>,
     <<UserMessage(1)>>,
     <<UserMessage(1), AssistantMessage(1)>>}

\* After the mount: the first render, its effects (currentMessage taken from
\* the conversation, the observer set up on the marker if it is mounted), and
\* the render that follows a change of currentMessage.
Init ==
    /\ conversation \in
          {[id |-> "c1", model |-> "gpt-3.5-turbo", prompt |-> "p",
            messages |-> ms] : ms \in StoredMessages}
    /\ currentMessage = SecondToLast(conversation.messages)
    /\ autoScrollEnabled = TRUE
    /\ stopConversationRef = FALSE
    /\ task = IdleTask
    /\ observing = MarkerMounted(conversation.messages)
    /\ markerVisible = MarkerMounted(conversation.messages)
    /\ focus = "other"
    /\ timers = Renders(EmptyBag, TRUE,
                        RenderCount(Undefined, conversation.messages))
    /\ sinceScroll = Limit
    /\ lastSent = Undefined
    /\ last = Quiet("mount", "")

\* The parent shows new messages: the component renders, its effect runs
\* (currentMessage, a fresh throttled scrollDown), and the end marker is
\* mounted or unmounted with the transcript.  cm is currentMessage as the
\* handler left it.
ShowMessages(ms, cm) ==
    /\ conversation' = [conversation EXCEPT !.messages = ms]
    /\ currentMessage' = SecondToLast(ms)
    /\ timers' = Renders(timers, autoScrollEnabled, RenderCount(cm, ms))
    /\ BagCardinality(timers') <= MaxTimers
    /\ observing' = (observing /\ MarkerMounted(ms))
    /\ markerVisible' \in
          IF ~MarkerMounted(ms) THEN {FALSE}
          ELSE IF MarkerMounted(conversation.messages) THEN {markerVisible}
          ELSE BOOLEAN

\* A render caused by a change of props or state other than the messages.
Rerender ==
    /\ timers' = Renders(timers, autoScrollEnabled, 1)
    /\ BagCardinality(timers') <= MaxTimers

\* ChatInput onSend: setCurrentMessage(message); onSend(message).
Send(text) ==
    LET m == UserMessage(text)
        ms == HandleSend(conversation.messages, m, 0)
    IN  /\ task.state = "Idle"
        /\ Len(ms) <= MaxMsgs
        /\ ShowMessages(ms, m)
        /\ task' = [state |-> "Sending", messages |-> ms,
                    origin |-> SendOrigin]
        /\ stopConversationRef' = FALSE
        /\ lastSent' = m
        /\ last' = Step("send", <<SendCall(m, 0)>>, "none", FALSE, "")
        /\ UNCHANGED <<autoScrollEnabled, focus, sinceScroll>>

\* ChatInput onRegenerate.
Regenerate ==
    LET calls == onRegenerate(currentMessage)
    IN  /\ task.state = "Idle"
        /\ last' = Step("regenerate", calls, "none", FALSE, "")
        /\ IF calls = <<>>
           THEN UNCHANGED <<conversation, currentMessage, autoScrollEnabled,
                            stopConversationRef, task, observing,
                            markerVisible, focus, timers, sinceScroll,
                            lastSent>>
           ELSE LET c == calls[1]
                    ms == HandleSend(conversation.messages, c.message,
                                     c.deleteCount)
                IN  /\ ShowMessages(ms, currentMessage)
                    /\ task' = [state |-> "Sending", messages |-> ms,
                                origin |-> RegenerateOrigin(
                                    conversation.messages, currentMessage)]
                    /\ stopConversationRef' = FALSE
                    /\ lastSent' = c.message
                    /\ UNCHANGED <<autoScrollEnabled, focus, sinceScroll>>

\* IconClearAll onClick.  When the update empties the transcript the end
\* marker is unmounted; the observer may report the marker it watched as no
\* longer intersecting (notify).
ClearAll(confirmed, notify) ==
    LET calls == onClearAll(confirmed)
    IN  /\ MarkerMounted(conversation.messages)
        /\ IF calls = <<>>
           THEN /\ last' = Step("clearAll", calls, "none", FALSE,
                                IF confirmed THEN "confirmed" ELSE "declined")
                /\ UNCHANGED <<conversation, currentMessage,
                               autoScrollEnabled, stopConversationRef, task,
                               observing, markerVisible, focus, timers,
                               sinceScroll, lastSent>>
           ELSE LET conv == ApplyUpdate(conversation, calls[1])
                    ms == conv.messages
                    notified == /\ notify /\ observing /\ markerVisible
                                /\ ~MarkerMounted(ms)
                    r == IF notified
                         THEN IntersectionCallback(FALSE, focus)
                         ELSE [autoScrollEnabled |-> autoScrollEnabled,
                               focus |-> focus]
                    ts == Renders(timers, autoScrollEnabled,
                                  RenderCount(currentMessage, ms))
                IN  /\ conversation' = conv
                    /\ currentMessage' = SecondToLast(ms)
                    /\ autoScrollEnabled' = r.autoScrollEnabled
                    /\ focus' = r.focus
                    /\ timers' = IF r.autoScrollEnabled # autoScrollEnabled
                                 THEN throttle(ts, r.autoScrollEnabled)
                                 ELSE ts
                    /\ BagCardinality(timers') <= MaxTimers
                    /\ observing' = (observing /\ MarkerMounted(ms))
                    /\ markerVisible' = (markerVisible /\ MarkerMounted(ms))
                    /\ last' = Step("clearAll", calls,
                                    IF notified THEN "hidden" ELSE "none",
                                    FALSE,
                                    IF confirmed THEN "confirmed"
                                    ELSE "declined")
                    /\ UNCHANGED <<stopConversationRef, task, sinceScroll,
                                   lastSent>>

\* The stop button of the compose box.
Stop ==
    /\ task.state # "Idle"
    /\ ~stopConversationRef
    /\ stopConversationRef' = TRUE
    /\ last' = Quiet("quiet", "")
    /\ UNCHANGED <<conversation, currentMessage, autoScrollEnabled, task,
                   observing, markerVisible, focus, timers, sinceScroll,
                   lastSent>>

\* A delta arrives from the transport: the generation loop ends the turn if
\* it sees the stop flag, and applies the delta otherwise.
DeltaArrives ==
    /\ task.state \in {"Sending", "Streaming"}
    /\ IF ObservesStop(stopConversationRef)
       THEN /\ task' = IdleTask
            /\ Rerender
            /\ last' = Quiet("delta", "Cancelled")
            /\ UNCHANGED <<conversation, currentMessage, observing,
                           markerVisible>>
       ELSE LET ms == ApplyDelta(task)
            IN  /\ Len(ms) <= MaxMsgs
                /\ ms[Len(ms)].content <= MaxDeltas
                /\ ShowMessages(ms, currentMessage)
                /\ task' = [task EXCEPT !.state = "Streaming",
                                        !.messages = ms]
                /\ last' = Quiet("delta", "Applied")
    /\ UNCHANGED <<autoScrollEnabled, stopConversationRef, focus, sinceScroll,
                   lastSent>>

\* The stream ends.
Complete ==
    /\ task.state = "Streaming"
    /\ task' = IdleTask
    /\ Rerender
    /\ last' = Quiet("complete", task.origin.kind)
    /\ UNCHANGED <<conversation, currentMessage, autoScrollEnabled,
                   stopConversationRef, observing, markerVisible, focus,
                   sinceScroll, lastSent>>

\* The request fails before any delta, or the stream fails after some.
Fail ==
    /\ task.state \in {"Sending", "Streaming"}
    /\ task' = IdleTask
    /\ Rerender
    /\ last' = Quiet("error", "Errored")
    /\ UNCHANGED <<conversation, currentMessage, autoScrollEnabled,
                   stopConversationRef, observing, markerVisible, focus,
                   sinceScroll, lastSent>>

\* The end marker crosses the 0.5 threshold (the user scrolls, or the
\* transcript grows or shrinks).  The callback runs only if the observer
\* watches the marker.
MarkerVisibility(v) ==
    LET r == IF observing
             THEN IntersectionCallback(v, focus)
             ELSE [autoScrollEnabled |-> autoScrollEnabled, focus |-> focus]
    IN  /\ MarkerMounted(conversation.messages)
        /\ markerVisible # v
        /\ markerVisible' = v
        /\ autoScrollEnabled' = r.autoScrollEnabled
        /\ focus' = r.focus
        /\ timers' = IF r.autoScrollEnabled # autoScrollEnabled
                     THEN throttle(timers, r.autoScrollEnabled)
                     ELSE timers
        /\ BagCardinality(timers') <= MaxTimers
        /\ last' = Step("visibility", <<>>,
                        IF observing THEN Entry(v) ELSE "none", FALSE, "")
        /\ UNCHANGED <<conversation, currentMessage, stopConversationRef,
                       task, observing, sinceScroll, lastSent>>

\* A trailing execution of scrollDown comes due.  It reads the
\* autoScrollEnabled of the render that made it and the marker ref as it is
\* now; scrolling brings the marker into view, which the observer reports.
TimerFires(t) ==
    LET rest == timers (-) SetToBag({t})
        scrolls == scrollDown(t.auto, MarkerMounted(conversation.messages))
        notified == scrolls /\ observing /\ ~markerVisible
        r == IF notified
             THEN IntersectionCallback(TRUE, focus)
             ELSE [autoScrollEnabled |-> autoScrollEnabled, focus |-> focus]
    IN  /\ t.remaining = 0
        /\ markerVisible' = (markerVisible \/ scrolls)
        /\ autoScrollEnabled' = r.autoScrollEnabled
        /\ focus' = r.focus
        /\ timers' = IF r.autoScrollEnabled # autoScrollEnabled
                     THEN throttle(rest, r.autoScrollEnabled)
                     ELSE rest
        /\ sinceScroll' = IF scrolls THEN 0 ELSE sinceScroll
        /\ last' = Step("timer", <<>>,
                        IF notified THEN "visible" ELSE "none", scrolls, "")
        /\ UNCHANGED <<conversation, currentMessage, stopConversationRef,
                       task, observing, lastSent>>

\* Time passes, up to the next timer that comes due.
Elapse ==
    LET S == BagToSet(timers)
        d == IF S = {} THEN TickMs
             ELSE Min(TickMs, CHOOSE x \in {t.remaining : t \in S} :
                                 \A t \in S : x <= t.remaining)
    IN  /\ d > 0
        /\ S # {} \/ sinceScroll < Limit
        /\ timers' = [u \in {[t EXCEPT !.remaining = @ - d] : t \in S} |->
                         timers[[u EXCEPT !.remaining = @ + d]]]
        /\ sinceScroll' = Min(Limit, sinceScroll + d)
        /\ last' = Quiet("quiet", "")
        /\ UNCHANGED <<conversation, currentMessage, autoScrollEnabled,
                       stopConversationRef, task, observing, markerVisible,
                       focus, lastSent>>

\* The user moves the focus away from the compose box.
Blur ==
    /\ focus = "textarea"
    /\ focus' = "other"
    /\ last' = Quiet("quiet", "")
    /\ UNCHANGED <<conversation, currentMessage, autoScrollEnabled,
                   stopConversationRef, task, observing, markerVisible,
                   timers, sinceScroll, lastSent>>

Next ==
    \/ \E text \in 1..NumTexts : Send(text)
    \/ Regenerate
    \/ \E confirmed \in BOOLEAN, notify \in BOOLEAN :
          ClearAll(confirmed, notify)
    \/ Stop
    \/ DeltaArrives
    \/ Complete
    \/ Fail
    \/ \E v \in BOOLEAN : MarkerVisibility(v)
    \/ \E t \in BagToSet(timers) : TimerFires(t)
    \/ Elapse
    \/ Blur

Spec == Init /\ [][Next]_vars

---------------------------------------------------------------------------
\* C1: regenerate with currentMessage undefined is a no-op: it issues no
\* send and leaves the conversation, currentMessage, autoScrollEnabled and
\* the stop flag as they were.
RegenerateUndefinedIsNoOp ==
    [][(last'.op = "regenerate" /\ currentMessage = Undefined) =>
          /\ last'.calls = <<>>
          /\ UNCHANGED <<conversation, currentMessage, autoScrollEnabled,
                         stopConversationRef>>]_vars

\* Regenerate has run on [user:1] with currentMessage undefined.
RegenerateUndefinedReached ==
    /\ last.op = "regenerate"
    /\ last.calls = <<>>
    /\ currentMessage = Undefined
    /\ conversation.messages = <<UserMessage(1)>>

\* C2: a turn started by regenerate on N >= 2 messages and run to completion
\* (the transcript of the turn still shown) leaves N messages, the remembered
\* message second to last and an assistant message last, and currentMessage
\* as it was before the regenerate.
RegenerateKeepsLengthAndCurrent ==
    [][(/\ last'.op = "complete"
        /\ task.origin.kind = "regenerate"
        /\ conversation.messages = task.messages) =>
          LET ms == conversation'.messages
              n == task.origin.length
          IN  /\ n >= 2
              /\ Len(ms) = n
              /\ ms[n - 1] = task.origin.message
              /\ ms[n].role = "assistant"
              /\ currentMessage' = task.origin.message]_vars

\* A regenerated turn has completed.
RegeneratedTurnCompleted ==
    /\ last.op = "complete"
    /\ last.note = "regenerate"
    /\ Len(conversation.messages) >= 2
    /\ currentMessage # Undefined

\* C3: clearAll declined issues no update request and leaves the conversation
\* as it was; confirmed, it issues exactly one request, which empties the
\* messages and changes no other field.
ClearAllAsksFirst ==
    [][last'.op = "clearAll" =>
          IF last'.note = "confirmed"
          THEN /\ last'.calls = <<UpdateCall("messages", <<>>)>>
               /\ conversation' = [conversation EXCEPT !.messages = <<>>]
          ELSE /\ last'.calls = <<>>
               /\ conversation' = conversation]_vars

\* clearAll was declined on a conversation that holds messages.
ClearAllDeclinedReached ==
    /\ last.op = "clearAll"
    /\ last.note = "declined"
    /\ last.calls = <<>>
    /\ Len(conversation.messages) > 0

\* C4: whenever the observer callback runs, a visible marker sets
\* autoScrollEnabled and moves the focus to the compose box; a hidden marker
\* clears autoScrollEnabled and leaves the focus where it was.
ObserverSetsAutoScrollAndFocus ==
    [][last'.entry # "none" =>
          IF last'.entry = "visible"
          THEN autoScrollEnabled' /\ focus' = "textarea"
          ELSE ~autoScrollEnabled' /\ focus' = focus]_vars

\* The callback has run for a marker that became hidden, the focus elsewhere.
ObserverHiddenReached ==
    /\ last.entry = "hidden"
    /\ ~autoScrollEnabled
    /\ focus = "other"

\* C5: scrollIntoView runs at most once per window of Limit ms: no execution
\* follows another by less than Limit.
ScrollRateLimited == [][last'.scrolled => sinceScroll >= Limit]_vars

\* C6: with the stop flag set during Streaming, no delta is applied; the
\* next delta that arrives ends the turn as Cancelled, the messages as they
\* were and the controller back to Idle.
StopCancelsWithinOneDelta ==
    [][(stopConversationRef /\ task.state = "Streaming") =>
          /\ last'.note # "Applied"
          /\ last'.op = "delta" =>
                /\ last'.note = "Cancelled"
                /\ task'.state = "Idle"
                /\ conversation'.messages = conversation.messages]_vars

\* A streaming turn was cancelled; its partial assistant message is kept.
StreamingTurnCancelled ==
    /\ last.op = "delta"
    /\ last.note = "Cancelled"
    /\ stopConversationRef
    /\ task.state = "Idle"
    /\ Len(conversation.messages) >= 2
    /\ conversation.messages[Len(conversation.messages)].role = "assistant"

\* C7 as stated: before any send, currentMessage is undefined.
UndefinedBeforeFirstSend == lastSent = Undefined => currentMessage = Undefined

\* C7 amended: before any send, currentMessage is the second-to-last message
\* of the conversation shown, undefined only if it holds fewer than two; a
\* regenerate that has issued no send ran on fewer than two messages.
SecondToLastBeforeFirstSend ==
    lastSent = Undefined =>
        LET ms == conversation.messages
        IN  /\ IF Len(ms) >= 2
               THEN currentMessage = ms[Len(ms) - 1]
               ELSE currentMessage = Undefined
            /\ last.op = "regenerate" => Len(ms) < 2

\* Mounted on two messages, nothing sent yet, currentMessage is defined.
DefinedBeforeFirstSend ==
    /\ lastSent = Undefined
    /\ Len(conversation.messages) >= 2
    /\ currentMessage = conversation.messages[1]
    /\ currentMessage # Undefined

\* C8: once a message has been sent, every send issued by regenerate passes
\* the most recently sent message, a user message, with deleteCount 2.
RegenerateSendsLastUserMessage ==
    [][(last'.op = "regenerate" /\ last'.calls # <<>>
        /\ lastSent # Undefined) =>
          /\ last'.calls[1].message = lastSent
          /\ last'.calls[1].message.role = "user"
          /\ last'.calls[1].deleteCount = RegenerateDeleteCount]_vars

\* C9: when the mounted end marker becomes hidden, autoScrollEnabled becomes
\* false, also for a marker mounted after the observer was set up.
HiddenMarkerDisablesAutoScroll ==
    [][(/\ MarkerMounted(conversation.messages)
        /\ MarkerMounted(conversation'.messages)
        /\ markerVisible /\ ~markerVisible') =>
          ~autoScrollEnabled']_vars

\* C10: scrollIntoView never runs while autoScrollEnabled is false.
ScrollOnlyWhenEnabled == [][last'.scrolled => autoScrollEnabled]_vars

====
